---- MODULE Spec2Model ----
(***************************************************************************)
(* fix_codacy.py: a driver that rewrites five source files in place.  Each *)
(* fix_* function reads one file, applies an ordered list of literal       *)
(* (str.replace) and pattern (re.sub) rules to its text, and writes the    *)
(* text back.  The module body calls the five functions in order and then  *)
(* prints "Files modified.".                                               *)
(*                                                                         *)
(* Text is modelled as TLA+ strings, character for character: Len, SubSeq  *)
(* and \o act on them as on Python's str.                                  *)
(***************************************************************************)
EXTENDS Integers, Sequences, FiniteSets

VARIABLES
    fs,       \* the file system: path -> [mode, content]
    call,     \* index of the fix_* call the module body is at (1..5)
    pc,       \* position: "read", "apply", "write", "print", "done", "aborted"
    ri,       \* index of the next rule statement of the current fix_* function
    content,  \* the local variable `content` of the current fix_* function
    out,      \* standard output of the current run
    run,      \* number of the current run of the script (1..MaxRuns)
    trace,    \* history: path -> the per-file states visited in this run
    io,       \* history: the open() calls of this run, <<how, path, succeeded>>
    start,    \* history: the file system as it was when this run began
    parts     \* history: path -> the pieces the initial content was built from

vars == <<fs, call, pc, ri, content, out, run, trace, io, start, parts>>

\* Number of times the script is run over the same files.
MaxRuns == 2
\* Number of pieces an initial file content is concatenated from.
MaxFrags == 2

-----------------------------------------------------------------------------
(* Characters *)

Upper == {"A", "B", "C", "D", "E", "F", "G", "H", "I", "J", "K", "L", "M",
          "N", "O", "P", "Q", "R", "S", "T", "U", "V", "W", "X", "Y", "Z"}
Lower == {"a", "b", "c", "d", "e", "f", "g", "h", "i", "j", "k", "l", "m",
          "n", "o", "p", "q", "r", "s", "t", "u", "v", "w", "x", "y", "z"}
\* \s
WhiteSpace == {" ", "\t", "\n", "\r", "\f"}
\* the complement of [^{}\n]
BodyStop == {"{", "}", "\n"}

CharAt(str, i) == SubSeq(str, i, i)
Min(S) == CHOOSE i \in S : \A j \in S : i <= j
Max(S) == CHOOSE i \in S : \A j \in S : i >= j
\* First position >= from whose character is not in the class (Len + 1 if none):
\* where a greedy run of the class that starts at `from` ends.
RunEnd(str, from, class) ==
    Min({j \in from..(Len(str) + 1) : j = Len(str) + 1 \/ CharAt(str, j) \notin class})
\* First position >= from whose character is in the class (Len + 1 if none).
StopAt(str, from, class) ==
    Min({j \in from..(Len(str) + 1) : j = Len(str) + 1 \/ CharAt(str, j) \in class})
StartsWith(str, i, sub) ==
    /\ i + Len(sub) - 1 <= Len(str)
    /\ sub = "" \/ SubSeq(str, i, i) = SubSeq(sub, 1, 1)
    /\ SubSeq(str, i, i + Len(sub) - 1) = sub

-----------------------------------------------------------------------------
(* str.replace(old, new) *)

\* Variant of Find that leaves the last character of sub uncompared.
FindShort(str, sub, from) ==
    LET hits == {i \in from..(Len(str) - Len(sub) + 1) :
                    StartsWith(str, i, SubSeq(sub, 1, Len(sub) - 1))}
    IN  IF hits = {} THEN 0 ELSE Min(hits)
\* str.find(sub, from): the lowest position >= from where sub occurs, 0 if none.
Find(str, sub, from) ==
    LET hits == {i \in from..(Len(str) - Len(sub) + 1) : StartsWith(str, i, sub)}
    IN  IF hits = {} THEN 0 ELSE Min(hits)

RECURSIVE ReplaceFrom(_, _, _, _)
ReplaceFrom(str, old, new, from) ==
    LET j == Find(str, old, from)
    IN  IF j = 0 THEN SubSeq(str, from, Len(str))
        ELSE SubSeq(str, from, j - 1) \o new \o ReplaceFrom(str, old, new, j + Len(old))

\* Every non-overlapping occurrence of old, left to right, becomes new.
Replace(str, old, new) == ReplaceFrom(str, old, new, 1)

-----------------------------------------------------------------------------
(* re.sub(r'(on[A-Z][a-zA-Z]*=\{(?:e|)\s*=>)\s*([^{}\n]+)\}', r'\1 { \2; }}', s) *)
(* `alts` is the alternation after "={": <<"e", "">> or <<"e", "v", "">>.   *)

\* The match of the tail  \s*([^{}\n]+)\}  from position t: \s* is greedy and
\* gives characters back one by one; group 2 is the longest run of [^{}\n]
\* from where \s* stopped, and a "}" must follow it.
TailMatch(str, t) ==
    LET w  == RunEnd(str, t, WhiteSpace)
        ok == {k \in t..w : LET e == StopAt(str, k, BodyStop)
                            IN  e > k /\ e <= Len(str) /\ CharAt(str, e) = "}"}
    IN  IF ok = {} THEN [found |-> FALSE, g2from |-> 0, g2to |-> 0, to |-> 0]
        ELSE LET k == Max(ok)
                 e == StopAt(str, k, BodyStop)
             IN  [found |-> TRUE, g2from |-> k, g2to |-> e - 1, to |-> e]

\* The match of the pattern anchored at position i with alternative alt.
MatchAlt(str, i, alt) ==
    LET a == RunEnd(str, i + 3, Upper \cup Lower)
        q == a + 2 + Len(alt)
        r == RunEnd(str, q, WhiteSpace)
        head == /\ StartsWith(str, i, "on")
                /\ i + 2 <= Len(str)
                /\ CharAt(str, i + 2) \in Upper
                /\ StartsWith(str, a, "={")
                /\ StartsWith(str, a + 2, alt)
                /\ StartsWith(str, r, "=>")
        tail == TailMatch(str, r + 2)
    IN  IF head /\ tail.found
        THEN [found |-> TRUE, g1to |-> r + 1, g2from |-> tail.g2from,
              g2to |-> tail.g2to, to |-> tail.to]
        ELSE [found |-> FALSE, g1to |-> 0, g2from |-> 0, g2to |-> 0, to |-> 0]

\* The alternatives are tried in order; the first that lets the whole pattern
\* match is taken.
MatchAt(str, i, alts) ==
    LET good == {n \in 1..Len(alts) : MatchAlt(str, i, alts[n]).found}
    IN  IF good = {} THEN [found |-> FALSE, g1to |-> 0, g2from |-> 0, g2to |-> 0, to |-> 0]
        ELSE MatchAlt(str, i, alts[Min(good)])

\* re.search from position `from`: the leftmost position with a match, 0 if none.
Search(str, alts, from) ==
    LET hits == {i \in from..Len(str) : MatchAt(str, i, alts).found}
    IN  IF hits = {} THEN 0 ELSE Min(hits)

RECURSIVE SubFrom(_, _, _)
SubFrom(str, alts, from) ==
    LET i == Search(str, alts, from)
        m == MatchAt(str, i, alts)
    IN  IF i = 0 THEN SubSeq(str, from, Len(str))
        ELSE SubSeq(str, from, i - 1)
             \o SubSeq(str, i, m.g1to) \o " { " \o SubSeq(str, m.g2from, m.g2to) \o "; }}"
             \o SubFrom(str, alts, m.to + 1)

\* Every non-overlapping match, left to right, becomes  \1 { \2; }}
Sub(str, alts) == SubFrom(str, alts, 1)

-----------------------------------------------------------------------------
(* Rules: the statements `content = content.replace(...)` and              *)
(* `content = re.sub(...)` of the fix_* functions, in source order.        *)

Literal(old, new) == [kind |-> "literal", old |-> old, new |-> new, alts |-> <<>>]
Pattern(alts) == [kind |-> "pattern", old |-> "", new |-> "", alts |-> alts]

NoExplicitAny == " // eslint-disable-next-line @typescript-eslint/no-explicit-any"
ObjectInjection == "// eslint-disable-next-line security/detect-object-injection\n"

\* n spaces: the indentation the replacement strings hard-code.
RECURSIVE Indent(_)
Indent(n) == IF n = 0 THEN "" ELSE " " \o Indent(n - 1)

\* Variant of fix_controls with the pattern of fix_app (e|v|).
fix_controls_mixed ==
    << Pattern(<<"e", "v", "">>),
       Literal("value: any) => {", "value: any) => {" \o NoExplicitAny),
       Literal("handleChange = (key: keyof WorldParams, value: any) => {",
               "handleChange = <K extends keyof WorldParams>(key: K, value: WorldParams[K]) => {"),
       Literal("handleAdvancedChange = (key: keyof WorldParams, value: any) => {",
               "handleAdvancedChange = <K extends keyof WorldParams>(key: K, value: WorldParams[K]) => {"),
       Literal("icon: any,", "icon: React.ElementType,") >>

fix_controls ==
    << Pattern(<<"e", "">>),
       Literal("value: any) => {", "value: any) => {" \o NoExplicitAny),
       Literal("handleChange = (key: keyof WorldParams, value: any) => {",
               "handleChange = <K extends keyof WorldParams>(key: K, value: WorldParams[K]) => {"),
       Literal("handleAdvancedChange = (key: keyof WorldParams, value: any) => {",
               "handleAdvancedChange = <K extends keyof WorldParams>(key: K, value: WorldParams[K]) => {"),
       Literal("icon: any,", "icon: React.ElementType,") >>

fix_app ==
    << Literal("(msg) => addLog(msg)", "(msg) => { addLog(msg); }"),
       Pattern(<<"e", "v", "">>),
       Literal("} catch (e: any) {", "} catch (e: any) {" \o NoExplicitAny),
       Literal("if (genF.provinces[idx]) {",
               ObjectInjection \o Indent(26) \o "if (genF.provinces[idx]) {"),
       Literal("genF.provinces[idx].name = savedP.name;",
               ObjectInjection \o Indent(30) \o "genF.provinces[idx].name = savedP.name;"),
       Literal("if (genF.provinces[idx].towns[tIdx]) {",
               ObjectInjection \o Indent(34) \o "if (genF.provinces[idx].towns[tIdx]) {"),
       Literal("genF.provinces[idx].towns[tIdx].name = savedT.name;",
               ObjectInjection \o Indent(38) \o "genF.provinces[idx].towns[tIdx].name = savedT.name;") >>

\* Variant of fix_map2d whose last replacement drops the final ";".
fix_map2d_dropping ==
    << Literal("return () => ro.disconnect();", "return () => { ro.disconnect(); };"),
       Literal("const listener = (event: WheelEvent) => handleWheel(event);",
               "const listener = (event: WheelEvent) => { handleWheel(event); };"),
       Literal("return () => canvas.removeEventListener('wheel', listener);",
               "return () => { canvas.removeEventListener('wheel', listener); };"),
       Literal("{ type: 'Sphere' } as any", "{ type: 'Sphere' } as d3.GeoPermissibleObjects"),
       Literal("const feature = world.geoJson?.features?.[i];",
               ObjectInjection \o Indent(8) \o "const feature = world.geoJson?.features?.[i];"),
       Literal("const color = getCellColor(world.cells[i], viewMode, world.params.seaLevel);",
               ObjectInjection \o Indent(8)
               \o "const color = getCellColor(world.cells[i], viewMode, world.params.seaLevel);"),
       Literal("outData[outIdx] = srcData[srcIdx];",
               ObjectInjection \o Indent(14) \o "outData[outIdx] = srcData[srcIdx]") >>

fix_map2d ==
    << Literal("return () => ro.disconnect();", "return () => { ro.disconnect(); };"),
       Literal("const listener = (event: WheelEvent) => handleWheel(event);",
               "const listener = (event: WheelEvent) => { handleWheel(event); };"),
       Literal("return () => canvas.removeEventListener('wheel', listener);",
               "return () => { canvas.removeEventListener('wheel', listener); };"),
       Literal("{ type: 'Sphere' } as any", "{ type: 'Sphere' } as d3.GeoPermissibleObjects"),
       Literal("const feature = world.geoJson?.features?.[i];",
               ObjectInjection \o Indent(8) \o "const feature = world.geoJson?.features?.[i];"),
       Literal("const color = getCellColor(world.cells[i], viewMode, world.params.seaLevel);",
               ObjectInjection \o Indent(8)
               \o "const color = getCellColor(world.cells[i], viewMode, world.params.seaLevel);"),
       Literal("outData[outIdx] = srcData[srcIdx];",
               ObjectInjection \o Indent(14) \o "outData[outIdx] = srcData[srcIdx];") >>

fix_gemini ==
    << Literal("const level = world.params.loreLevel || 1;", "const level = world.params.loreLevel;"),
       Literal("(fJson: any)",
               "(fJson: { id: number, name: string, description: string, capitalName?: string, provinceNames?: string[] })"),
       Literal("if (fJson.provinceNames[idx]) {",
               ObjectInjection \o Indent(24) \o "if (fJson.provinceNames[idx]) {"),
       Literal("p.name = fJson.provinceNames[idx];",
               ObjectInjection \o Indent(28) \o "p.name = fJson.provinceNames[idx];") >>

fix_types ==
    << Literal("geoJson: any;", "geoJson: Record<string, unknown>;") >>

\* The module body: the calls in order, each with the path its function opens.
Calls ==
    << [path |-> "components/Controls.tsx", rules |-> fix_controls],
       [path |-> "App.tsx",                 rules |-> fix_app],
       [path |-> "components/Map2D.tsx",    rules |-> fix_map2d],
       [path |-> "services/gemini.ts",      rules |-> fix_gemini],
       [path |-> "types.ts",                rules |-> fix_types] >>

Paths == {Calls[c].path : c \in 1..Len(Calls)}
CallOf(p) == CHOOSE c \in 1..Len(Calls) : Calls[c].path = p
RulesOf(p) == Calls[CallOf(p)].rules

\* One rule statement applied to a text.
ApplyRule(rule, text) ==
    IF rule.kind = "literal" THEN Replace(text, rule.old, rule.new)
    ELSE Sub(text, rule.alts)

\* Rule statements 1..n of `rules` applied in order to a text.
RECURSIVE Fold(_, _, _)
Fold(rules, text, n) ==
    IF n = 0 THEN text ELSE ApplyRule(rules[n], Fold(rules, text, n - 1))

\* What a fix_* function computes between its read and its write.
Transform(rules, text) == Fold(rules, text, Len(rules))

-----------------------------------------------------------------------------
(* The files the script is run on *)

Text(t) == [kind |-> "text", name |-> "", param |-> "", ws1 |-> "", ws2 |-> "", body |-> t]
\* A JSX handler attribute  on<name>={<param><ws1>=><ws2><body>}
Attr(name, param, ws1, ws2, body) ==
    [kind |-> "attr", name |-> name, param |-> param, ws1 |-> ws1, ws2 |-> ws2, body |-> body]

Render(piece) ==
    IF piece.kind = "attr"
    THEN "on" \o piece.name \o "={" \o piece.param \o piece.ws1 \o "=>"
         \o piece.ws2 \o piece.body \o "}"
    ELSE piece.body

RECURSIVE Concat(_)
Concat(pieces) ==
    IF pieces = <<>> THEN "" ELSE Render(Head(pieces)) \o Concat(Tail(pieces))

Pieces(p) ==
    CASE p = "components/Controls.tsx" ->
           { Text("handleChange = (key: keyof WorldParams, value: any) => {"),
             Attr("Change", "e", " ", " ", "setSeed(e.target.value)"),
             Attr("Click", "v", "", "\n  ", "pick(v) "),
             Attr("Blur", "", " ", "", "reset()"),
             Text("onClick={e => { go(e); }}") }
      [] p = "App.tsx" ->
           { Text("} catch (e: any) {"),
             Attr("Click", "v", " ", " ", "genF.provinces[idx].name = savedP.name"),
             Attr("Change", "e", "", "\n  ", "setView(e) "),
             Text("if (genF.provinces[idx]) {"),
             Text("onLog={(msg) => addLog(msg)}") }
      [] p = "components/Map2D.tsx" ->
           { Text("outData[outIdx] = srcData[srcIdx];"),
             Text("return () => ro.disconnect();"),
             Text("{ type: 'Sphere' } as unknown\n") }
      [] p = "services/gemini.ts" ->
           { Text("if (fJson.provinceNames[idx]) {"),
             Text("const level = world.params.loreLevel || 1;"),
             Text("(fJson: unknown)\n") }
      [] p = "types.ts" ->
           { Text("geoJson: any;"),
             Text("geoJson: any[];\n") }

\* The content of the files the run is not varied on.
Baseline(p) ==
    CASE p = "components/Controls.tsx" -> <<Attr("Change", "e", " ", " ", "setSeed(e.target.value)")>>
      [] p = "App.tsx" -> <<Text("} catch (e: any) {")>>
      [] p = "components/Map2D.tsx" -> <<Text("outData[outIdx] = srcData[srcIdx];")>>
      [] p = "services/gemini.ts" -> <<Text("if (fJson.provinceNames[idx]) {")>>
      [] p = "types.ts" -> <<Text("geoJson: any;")>>

SeqsUpTo(S, n) == UNION {[1..k -> S] : k \in 0..n}

Modes == {"ok", "readonly", "unreadable", "missing"}

Pending == [p \in Paths |-> <<"PENDING">>]

Init ==
    \E f \in Paths, bad \in Paths \cup {"none"}, m \in Modes :
      \E ps \in SeqsUpTo(Pieces(f), MaxFrags) :
        /\ (bad = "none") = (m = "ok")
        /\ bad # "none" => ps = Baseline(f)
        /\ parts = [p \in Paths |-> IF p = bad /\ m = "missing" THEN <<>>
                                    ELSE IF p = f THEN ps ELSE Baseline(p)]
        /\ fs = [p \in Paths |-> [mode |-> IF p = bad THEN m ELSE "ok",
                                  content |-> Concat(parts[p])]]
        /\ start = fs
        /\ call = 1 /\ pc = "read" /\ ri = 1 /\ content = ""
        /\ out = <<>> /\ run = 1 /\ trace = Pending /\ io = <<>>

-----------------------------------------------------------------------------
(* The script *)

\* Variant: a file that cannot be opened reads as the empty text.
CanOpenReadAny(mode) == TRUE
\* open(path, 'r') raises unless the file exists and may be read.
CanOpenRead(mode) == mode \in {"ok", "readonly"}
\* open(path, 'w') creates a missing file and raises on one that may not be written.
CanOpenWrite(mode) == mode \in {"ok", "unreadable", "missing"}

\* Variant: the exception is swallowed and the module body goes on.
OnRaiseSkip(c) ==
    IF c = Len(Calls) THEN [call |-> c, pc |-> "print"] ELSE [call |-> c + 1, pc |-> "read"]
\* An exception raised in a fix_* call is caught nowhere: the script ends.
OnRaise(c) == [call |-> c, pc |-> "aborted"]
\* Variant: print follows the first call that returns.
OnReturnPrint(c) == [call |-> c, pc |-> "print"]
\* A fix_* call that returns is followed by the next call, the last by print.
OnReturn(c) ==
    IF c = Len(Calls) THEN [call |-> c, pc |-> "print"] ELSE [call |-> c + 1, pc |-> "read"]

\* Variant: every statement works on the text read from the file.
StepOnLoaded(rule, cur, loaded) == ApplyRule(rule, loaded)
\* Each rule statement assigns `content` from `content`: cur is the value of
\* the previous statement, loaded the text read from the file.
Step(rule, cur, loaded) == ApplyRule(rule, cur)
\* Variant: the write follows the first rule statement.
RulesDoneEarly(rules, i) == i >= 1
\* The write follows the last rule statement.
RulesDone(rules, i) == i = Len(rules)

Path == Calls[call].path
Visit(state) == [trace EXCEPT ![Path] = Append(@, state)]

\* with open(path, 'r') as f: content = f.read()
Read ==
    /\ pc = "read" /\ CanOpenRead(fs[Path].mode)
    /\ content' = fs[Path].content
    /\ ri' = 1 /\ pc' = "apply"
    /\ trace' = Visit("LOADED")
    /\ io' = Append(io, <<"r", Path, TRUE>>)
    /\ UNCHANGED <<fs, call, out, run, start, parts>>

ReadRaises ==
    /\ pc = "read" /\ ~CanOpenRead(fs[Path].mode)
    /\ call' = OnRaise(call).call /\ pc' = OnRaise(call).pc
    /\ trace' = Visit("FAILED")
    /\ io' = Append(io, <<"r", Path, FALSE>>)
    /\ UNCHANGED <<fs, ri, content, out, run, start, parts>>

\* content = content.replace(...)  /  content = re.sub(...)
Apply ==
    /\ pc = "apply"
    /\ content' = Step(Calls[call].rules[ri], content, start[Path].content)
    /\ ri' = ri + 1
    /\ IF RulesDone(Calls[call].rules, ri)
       THEN pc' = "write" /\ trace' = Visit("TRANSFORMED")
       ELSE pc' = "apply" /\ trace' = trace
    /\ UNCHANGED <<fs, call, out, run, io, start, parts>>

\* with open(path, 'w') as f: f.write(content)
Write ==
    /\ pc = "write" /\ CanOpenWrite(fs[Path].mode)
    /\ fs' = [fs EXCEPT ![Path] = [mode |-> IF @.mode = "missing" THEN "ok" ELSE @.mode,
                                   content |-> content]]
    /\ call' = OnReturn(call).call /\ pc' = OnReturn(call).pc
    /\ ri' = 1 /\ content' = ""
    /\ trace' = Visit("WRITTEN")
    /\ io' = Append(io, <<"w", Path, TRUE>>)
    /\ UNCHANGED <<out, run, start, parts>>

WriteRaises ==
    /\ pc = "write" /\ ~CanOpenWrite(fs[Path].mode)
    /\ call' = OnRaise(call).call /\ pc' = OnRaise(call).pc
    /\ trace' = Visit("FAILED")
    /\ io' = Append(io, <<"w", Path, FALSE>>)
    /\ UNCHANGED <<fs, ri, content, out, run, start, parts>>

\* print("Files modified.")
Completion ==
    /\ pc = "print"
    /\ out' = Append(out, "Files modified.")
    /\ pc' = "done"
    /\ UNCHANGED <<fs, call, ri, content, run, trace, io, start, parts>>

\* The script is run again on the files the previous run left.
Rerun ==
    /\ pc \in {"done", "aborted"} /\ run < MaxRuns
    /\ run' = run + 1
    /\ call' = 1 /\ pc' = "read" /\ ri' = 1 /\ content' = ""
    /\ out' = <<>> /\ trace' = Pending /\ io' = <<>>
    /\ start' = fs
    /\ UNCHANGED <<fs, parts>>

Next == Read \/ ReadRaises \/ Apply \/ Write \/ WriteRaises \/ Completion \/ Rerun

Spec == Init /\ [][Next]_vars

-----------------------------------------------------------------------------
(* Vocabulary of the properties *)

Last(seq) == seq[Len(seq)]
IsPrefix(s, t) == Len(s) <= Len(t) /\ SubSeq(t, 1, Len(s)) = s
Range(seq) == {seq[i] : i \in DOMAIN seq}
Existing(files) == {p \in Paths : files[p].mode # "missing"}
Loaded(p) == start[p].content
Initial(p) == Concat(parts[p])

\* The matcher of a rule occurs in a text.
Occurs(rule, text) ==
    IF rule.kind = "literal"
    THEN \E i \in 1..Len(text) : StartsWith(text, i, rule.old)
    ELSE \E i \in 1..Len(text) : MatchAt(text, i, rule.alts).found
NoMatcher(rules, text) == \A j \in 1..Len(rules) : ~Occurs(rules[j], text)

\* str.count(sub): the number of non-overlapping occurrences.
RECURSIVE CountFrom(_, _, _)
CountFrom(str, sub, from) ==
    LET hits == {i \in from..(Len(str) - Len(sub) + 1) : StartsWith(str, i, sub)}
    IN  IF hits = {} THEN 0 ELSE 1 + CountFrom(str, sub, Min(hits) + Len(sub))
Count(str, sub) == CountFrom(str, sub, 1)

-----------------------------------------------------------------------------
\* C1: for every rule set R and content C, transform(transform(C, R), R) =
\* transform(C, R): a file the script has written (it holds transform(C, R))
\* is left as it is by another application of its rule set.
C1_Idempotent ==
    \A p \in Paths :
        Last(trace[p]) = "WRITTEN" => Transform(RulesOf(p), fs[p].content) = fs[p].content

\* C2: fix_controls turns the handleChange signature into exactly the generic
\* signature, with nothing before or after it, and a second run leaves that
\* output unchanged.
C2_HandleChange ==
    LET p == "components/Controls.tsx"
    IN  /\ parts[p] = <<Text("handleChange = (key: keyof WorldParams, value: any) => {")>>
        /\ Last(trace[p]) = "WRITTEN"
        => fs[p].content =
             "handleChange = <K extends keyof WorldParams>(key: K, value: WorldParams[K]) => {"

\* C3: when a file cannot be opened for reading the run aborts there: every
\* file before it in the order of the calls is written with its transformed
\* content and stays so, and the file itself and every later file are neither
\* read nor written.
C3_FailureIsolation ==
    \A i \in DOMAIN io :
        io[i][1] = "r" /\ ~io[i][3] =>
            /\ i = Len(io) /\ pc = "aborted" /\ Path = io[i][2]
            /\ \A c \in 1..Len(Calls) :
                 LET p == Calls[c].path
                 IN  IF c < call
                     THEN /\ trace[p] = <<"PENDING", "LOADED", "TRANSFORMED", "WRITTEN">>
                          /\ fs[p].content = Transform(Calls[c].rules, Loaded(p))
                     ELSE /\ fs[p] = start[p]
                          /\ \A j \in DOMAIN io : io[j][2] = p => j = i
                          /\ "LOADED" \notin Range(trace[p])

C3_Witness ==
    /\ pc = "aborted" /\ call = 3
    /\ fs[Path].mode = "missing"
    /\ io[Len(io)] = <<"r", Path, FALSE>>
    /\ \A c \in 1..2 : fs[Calls[c].path].content # Loaded(Calls[c].path)

\* C4 as stated: every file follows PENDING -> LOADED -> TRANSFORMED -> WRITTEN
\* or PENDING -> LOADED -> FAILED.
C4_TwoPaths ==
    \A p \in Paths :
        \/ IsPrefix(trace[p], <<"PENDING", "LOADED", "TRANSFORMED", "WRITTEN">>)
        \/ IsPrefix(trace[p], <<"PENDING", "LOADED", "FAILED">>)

\* C4, amended: every file follows PENDING -> LOADED -> TRANSFORMED -> WRITTEN,
\* or fails at the open for reading (PENDING -> FAILED), or fails at the open
\* for writing (PENDING -> LOADED -> TRANSFORMED -> FAILED).  A file that
\* failed is not written, and the write comes only after every rule of the
\* file's rule set has been applied.
C4_Paths ==
    /\ \A p \in Paths :
         /\ \/ IsPrefix(trace[p], <<"PENDING", "LOADED", "TRANSFORMED", "WRITTEN">>)
            \/ trace[p] = <<"PENDING", "FAILED">>
            \/ trace[p] = <<"PENDING", "LOADED", "TRANSFORMED", "FAILED">>
         /\ "FAILED" \in Range(trace[p]) =>
              /\ fs[p] = start[p]
              /\ <<"w", p, TRUE>> \notin Range(io)
    /\ pc = "write" =>
         /\ ri = Len(Calls[call].rules) + 1
         /\ content = Transform(Calls[call].rules, Loaded(Path))

C4_Witness ==
    /\ pc = "aborted"
    /\ trace[Path] = <<"PENDING", "LOADED", "TRANSFORMED", "FAILED">>
    /\ content # Loaded(Path)

\* C5: when no matcher of a file's rule set occurs in the content read, every
\* rule leaves the text as it is, the content written is the content read, and
\* the file fails only if it cannot be opened.
C5_NoOp ==
    \A p \in Paths :
        \/ /\ p = Path /\ pc \in {"apply", "write"} => content = Loaded(p)
           /\ Last(trace[p]) = "WRITTEN" /\ io[Len(io)][2] = p => fs[p].content = Loaded(p)
           /\ "FAILED" \in Range(trace[p]) => fs[p].mode # "ok"
        \/ ~NoMatcher(RulesOf(p), Loaded(p))

C5_Witness ==
    LET p == "types.ts"
    IN  /\ run = 1 /\ Loaded(p) = "geoJson: any[];\n"
        /\ NoMatcher(RulesOf(p), Loaded(p))
        /\ Last(trace[p]) = "WRITTEN"

\* C6: "Files modified." is printed at most once in a run, only after all
\* five files have been read, transformed and written, and never in a run
\* that aborts.
C6_Message ==
    /\ Len(out) <= 1
    /\ out # <<>> =>
         /\ out = <<"Files modified.">>
         /\ \A p \in Paths : trace[p] = <<"PENDING", "LOADED", "TRANSFORMED", "WRITTEN">>
    /\ (pc = "aborted" \/ \E p \in Paths : "FAILED" \in Range(trace[p])) => out = <<>>

C6_Witness ==
    /\ pc = "done" /\ run = MaxRuns
    /\ out = <<"Files modified.">>

\* C7: the files that exist are the same after a run as before it, also when
\* the run aborts: a path is opened for writing only after the same path was
\* opened and read in the same call.
C7_SameFiles ==
    /\ Existing(fs) = Existing(start)
    /\ \A i \in DOMAIN io :
         io[i][1] = "w" => i > 1 /\ io[i - 1] = <<"r", io[i][2], TRUE>>

C7_Witness ==
    /\ pc = "aborted" /\ call > 1
    /\ fs[Path].mode = "missing"
    /\ <<"w", Calls[1].path, TRUE>> \in Range(io)

\* Walks the rules from j on, `before` being the output of the rules before
\* j: the output of the last rule is `final`, and where a rule's matcher is
\* not in the text read and is in the output so far, the rule changes that
\* output and changes nothing when applied to the text read.
RECURSIVE Chained(_, _, _, _, _)
Chained(rules, loaded, j, before, final) ==
    IF j > Len(rules) THEN before = final
    ELSE LET after == ApplyRule(rules[j], before)
         IN  /\ ~Occurs(rules[j], loaded) /\ Occurs(rules[j], before) =>
                   /\ after # before
                   /\ ApplyRule(rules[j], loaded) = loaded
             /\ Chained(rules, loaded, j + 1, after, final)

\* C8: the rule statements of a fix_* function are a left fold in source
\* order: the input of each statement is the output of the one before it, so
\* the content about to be written is rule_n(...rule_1(content read)...).
\* Consequently, where a rule's matcher is not in the content read and is in
\* the output of the rules before it, the rule rewrites that output, while on
\* the content read it changes nothing.
C8_Fold ==
    /\ pc = "apply" /\ ri = 1 => content = Loaded(Path)
    /\ pc = "write" => Chained(Calls[call].rules, Loaded(Path), 1, Loaded(Path), content)

C8_Witness ==
    /\ Path = "App.tsx" /\ pc = "write" /\ run = 1
    /\ Loaded(Path) = "onClick={v => genF.provinces[idx].name = savedP.name}"
    /\ ~Occurs(fix_app[5], Loaded(Path))
    /\ Occurs(fix_app[5], Fold(fix_app, Loaded(Path), 4))
    /\ content = "onClick={v => { " \o ObjectInjection \o Indent(30)
                 \o "genF.provinces[idx].name = savedP.name; }}"

\* The handler attributes C9 speaks of: P is "e" or empty in Controls.tsx and
\* "e", "v" or empty in App.tsx.
VoidParams(p) == IF p = "App.tsx" THEN {"e", "v", ""} ELSE {"e", ""}
VoidRule(p) == IF p = "App.tsx" THEN 2 ELSE 1
Rewritten(piece, params) ==
    IF piece.kind = "attr" /\ piece.param \in params
    THEN "on" \o piece.name \o "={" \o piece.param \o piece.ws1 \o "=> { "
         \o piece.body \o "; }}"
    ELSE Render(piece)
RECURSIVE RewrittenAll(_, _)
RewrittenAll(pieces, params) ==
    IF pieces = <<>> THEN ""
    ELSE Rewritten(Head(pieces), params) \o RewrittenAll(Tail(pieces), params)

\* C9: the void-return pattern rule rewrites every attribute
\* on<Upper><letters>={P => EXPR} of its input, left to right, into
\* on<...>={P => { EXPR; }} with the head and EXPR copied, leaves every other
\* piece (an attribute with another P, a body that starts with "{") as it is,
\* and applied to its own output changes nothing.
C9_VoidReturn ==
    LET p == Path
        k == VoidRule(p)
    IN  /\ p \in {"components/Controls.tsx", "App.tsx"}
        /\ pc \in {"apply", "write"} /\ ri = k + 1
        /\ Fold(Calls[call].rules, Loaded(p), k - 1) = Initial(p)
        => /\ content = RewrittenAll(parts[p], VoidParams(p))
           /\ ApplyRule(Calls[call].rules[k], content) = content

C9_Witness ==
    LET p == "components/Controls.tsx"
    IN  /\ Path = p /\ pc = "apply" /\ ri = 2 /\ run = 1
        /\ parts[p] = <<Attr("Change", "e", " ", " ", "setSeed(e.target.value)"),
                        Attr("Click", "v", "", "\n  ", "pick(v) ")>>
        /\ content = "onChange={e => { setSeed(e.target.value); }}onClick={v=>\n  pick(v) }"

\* The comment-insertion rules of fix_app, fix_map2d and fix_gemini.
Inserting(p) ==
    CASE p = "App.tsx" -> 3..7
      [] p = "components/Map2D.tsx" -> 5..7
      [] p = "services/gemini.ts" -> 3..4
      [] OTHER -> {}
CommentOf(rule) ==
    IF StartsWith(rule.new, 1, ObjectInjection) THEN ObjectInjection ELSE NoExplicitAny
\* Walks the rules from j on, `text` being the output of the rules before j:
\* the sum, over the rules in js that insert `comment`, of the occurrences of
\* the rule's matcher in the text the rule is applied to.
RECURSIVE SumMet(_, _, _, _, _)
SumMet(rules, text, j, js, comment) ==
    IF j > Len(rules) THEN 0
    ELSE (IF j \in js /\ CommentOf(rules[j]) = comment THEN Count(text, rules[j].old) ELSE 0)
         + SumMet(rules, ApplyRule(rules[j], text), j + 1, js, comment)
\* Walks the rules likewise: every rule in js has as many occurrences of its
\* matcher in `final` as in the text the rule is applied to.
RECURSIVE MetKept(_, _, _, _, _)
MetKept(rules, text, j, js, final) ==
    IF j > Len(rules) THEN TRUE
    ELSE /\ j \in js => Count(final, rules[j].old) = Count(text, rules[j].old)
         /\ MetKept(rules, ApplyRule(rules[j], text), j + 1, js, final)
\* No other rule of the file that inserts the same comment has its matcher in
\* the initial content.
Alone(p, j) ==
    \A i \in Inserting(p) \ {j} :
        CommentOf(RulesOf(p)[i]) = CommentOf(RulesOf(p)[j])
            => Count(Initial(p), RulesOf(p)[i].old) = 0

\* C10 as stated: after n complete runs over a file that initially holds k
\* occurrences of a comment-insertion rule's matcher, the file holds k
\* occurrences of the matcher and n*k copies of the rule's comment.
C10_Counts ==
    pc = "done" =>
        \A p \in Paths : \A j \in Inserting(p) :
            LET rule == RulesOf(p)[j]
                k == Count(Initial(p), rule.old)
            IN  /\ Count(rule.new, rule.old) = 1
                /\ Count(fs[p].content, rule.old) = k
                /\ Alone(p, j) => Count(fs[p].content, CommentOf(rule)) = run * k

\* C10, amended: k is the number of occurrences of the matcher in the text the
\* rule is applied to in the first run, that is after the earlier rules of the
\* same fix_* function (the void-return pattern of fix_app creates the matcher
\* "genF.provinces[idx].name = savedP.name;" by appending the ";"); the rules
\* of one file that insert the same comment text are counted together.  In
\* fix_map2d and fix_gemini this k is the initial k.
C10_CountsMet ==
    pc = "done" =>
        \A p \in Paths :
            /\ \A j \in Inserting(p) :
                 /\ Count(RulesOf(p)[j].new, RulesOf(p)[j].old) = 1
                 /\ p # "App.tsx" =>
                      Count(fs[p].content, RulesOf(p)[j].old)
                        = Count(Initial(p), RulesOf(p)[j].old)
            /\ Inserting(p) # {} =>
                 /\ MetKept(RulesOf(p), Initial(p), 1, Inserting(p), fs[p].content)
                 /\ \A comment \in {CommentOf(RulesOf(p)[j]) : j \in Inserting(p)} :
                      Count(fs[p].content, comment)
                        = run * SumMet(RulesOf(p), Initial(p), 1, Inserting(p), comment)

C10_Witness ==
    LET p == "App.tsx"
    IN  /\ pc = "done" /\ run = 2
        /\ parts[p] = <<Attr("Click", "v", " ", " ", "genF.provinces[idx].name = savedP.name"),
                        Text("if (genF.provinces[idx]) {")>>
        /\ Count(Initial(p), fix_app[5].old) = 0
        /\ Count(fs[p].content, fix_app[5].old) = 1
        /\ Count(fs[p].content, ObjectInjection) = 4

====
